---------------------------- MODULE Spec2Model ----------------------------
(***************************************************************************)
(* Rise / set / transit root finding of astroplan's Observer               *)
(* (src/astroplan/core.py).                                                *)
(*                                                                         *)
(* Instants and altitudes are exact rationals <<numerator, denominator>>   *)
(* (denominator > 0, lowest terms); the floating point of the source is    *)
(* read as real arithmetic.  One day is DayTicks ticks, so that a grid of  *)
(* GridN samples over one day has a step of exactly one tick.              *)
(***************************************************************************)
EXTENDS Integers, Sequences, FiniteSets

\* observer: the Observer constructed; ephemeris: the Sun's altitude profile
\* (what get_sun yields at this observer); op, args, ret: the last call made,
\* its arguments and its result; prior: the reference instant and result of
\* the call whose returned instant was handed to this call, if any
VARIABLES observer, ephemeris, op, args, ret, prior

vars == <<observer, ephemeris, op, args, ret, prior>>

-----------------------------------------------------------------------------
(* Bounds of the model                                                     *)

\* number of grid samples N of a search (the source's default is 150)
GridN == 5

\* altitudes handed directly to the helpers range over -MaxAlt .. MaxAlt
MaxAlt == 2

\* horizons handed directly to the helpers range over
\* -MaxHorizon .. MaxHorizon
MaxHorizon == 1

\* reference instants range over 0, 1/2, .. MaxTime/2 ticks
MaxTime == 1

\* longest altitude sequence handed directly to _horiz_cross
MaxLen == 4

\* the offsets of a grid drawn on its own run over -MaxSpan .. MaxSpan days
MaxSpan == 2

-----------------------------------------------------------------------------
(* Exact rational arithmetic                                               *)

Abs(x) == IF x < 0 THEN -x ELSE x

RECURSIVE GCD(_, _)
GCD(a, b) == IF b = 0 THEN a ELSE GCD(b, a % b)

\* the rational n/d in lowest terms with a positive denominator (d # 0)
Q(n, d) ==
    LET g == GCD(Abs(n), Abs(d))
        s == IF d < 0 THEN -1 ELSE 1
    IN  <<(s * n) \div g, (s * d) \div g>>

QInt(n) == <<n, 1>>
QAdd(a, b) == Q(a[1] * b[2] + b[1] * a[2], a[2] * b[2])
QSub(a, b) == Q(a[1] * b[2] - b[1] * a[2], a[2] * b[2])
QMul(a, b) == Q(a[1] * b[1], a[2] * b[2])
\* b # 0
QDiv(a, b) == Q(a[1] * b[2], a[2] * b[1])
QLt(a, b) == a[1] * b[2] < b[1] * a[2]
QLe(a, b) == a[1] * b[2] <= b[1] * a[2]
QAbs(a) == <<Abs(a[1]), a[2]>>
QFloor(a) == a[1] \div a[2]
QZero == QInt(0)

\* a sequence given as a function, as the tuple of its values
Array(f) == f \o <<>>

QSeq(s) == Array([i \in 1..Len(s) |-> QInt(s[i])])

-----------------------------------------------------------------------------
(* Results                                                                 *)

NoTime == <<>>

Ok(jd) == [status |-> "ok", jd |-> jd]
Err(kind) == [status |-> kind, jd |-> NoTime]

Directions == {"rising", "setting"}
Whiches == {"next", "previous", "nearest"}

-----------------------------------------------------------------------------
(* _horiz_cross: the bracket of the first horizon crossing                 *)

\* condition with the comparisons made non-strict
condition_nonstrict(alt, rise_set, horizon, i) ==
    IF rise_set = "rising"
    THEN QLe(alt[i + 1], horizon) /\ QLe(horizon, alt[i + 2])
    ELSE QLe(horizon, alt[i + 1]) /\ QLe(alt[i + 2], horizon)

\* condition = (alt[:-1] < horizon) * (alt[1:] > horizon), zero-based index i
condition(alt, rise_set, horizon, i) ==
    IF rise_set = "rising"
    THEN QLt(alt[i + 1], horizon) /\ QLt(horizon, alt[i + 2])
    ELSE QLt(horizon, alt[i + 1]) /\ QLt(alt[i + 2], horizon)

\* the last index at which condition holds instead of the first
nearest_index_last(alt, rise_set, horizon) ==
    CHOOSE i \in 0..(Len(alt) - 2) :
        /\ condition(alt, rise_set, horizon, i)
        /\ \A j \in (i + 1)..(Len(alt) - 2) : ~condition(alt, rise_set, horizon, j)

\* np.argwhere(condition)[0][0]
nearest_index(alt, rise_set, horizon) ==
    CHOOSE i \in 0..(Len(alt) - 2) :
        /\ condition(alt, rise_set, horizon, i)
        /\ \A j \in 0..(i - 1) : ~condition(alt, rise_set, horizon, j)

\* the return value ((t[lo], t[hi]), (alt[lo], alt[hi])), zero-based lo, hi
Bracket(t, alt, lo, hi) ==
    [status |-> "ok",
     times |-> <<t[lo + 1], t[hi + 1]>>,
     alts |-> <<alt[lo + 1], alt[hi + 1]>>]

NoBracket(kind) == [status |-> kind, times |-> <<>>, alts |-> <<>>]

\* _horiz_cross without the validation of rise_set
_horiz_cross_unvalidated(t, alt, rise_set, horizon) ==
    IF \A i \in 0..(Len(alt) - 2) : ~condition(alt, rise_set, horizon, i)
    THEN NoBracket("NoCrossingFound")
    ELSE LET ni == nearest_index(alt, rise_set, horizon)
         IN  IF ni = 0
             THEN Bracket(t, alt, 0, 1)
             ELSE IF QLt(horizon, alt[ni + 1])
             THEN Bracket(t, alt, ni - 1, ni)
             ELSE Bracket(t, alt, ni, ni + 1)

_horiz_cross(t, alt, rise_set, horizon) ==
    IF rise_set \notin Directions
    THEN NoBracket("InvalidArgument")
    ELSE IF \A i \in 0..(Len(alt) - 2) : ~condition(alt, rise_set, horizon, i)
    THEN NoBracket("NoCrossingFound")
    ELSE LET ni == nearest_index(alt, rise_set, horizon)
         IN  IF ni = 0
             THEN Bracket(t, alt, 0, 1)
             ELSE IF ni = Len(alt)
             THEN Bracket(t, alt, Len(alt) - 2, Len(alt) - 1)
             ELSE IF QLt(horizon, alt[ni + 1])
             THEN Bracket(t, alt, ni - 1, ni)
             ELSE Bracket(t, alt, ni, ni + 1)

-----------------------------------------------------------------------------
(* _two_point_interp: the instant where the line through two samples       *)
(* meets the horizon.  A division by zero is an IEEE infinity or NaN in    *)
(* the source (numpy scalars), whence a non-finite instant.                *)

\* the interpolation taken back from the first sample's instant
_two_point_interp_from_t0(times, altitudes, horizon) ==
    LET dt == QSub(times[2], times[1])
        da == QSub(altitudes[2], altitudes[1])
    IN  IF dt = QZero
        THEN IF da = QZero THEN Err("NonFinite") ELSE Ok(times[1])
        ELSE LET slope == QDiv(da, dt)
             IN  IF slope = QZero
                 THEN Err("NonFinite")
                 ELSE Ok(QSub(times[1],
                              QDiv(QSub(altitudes[2], horizon), slope)))

_two_point_interp(times, altitudes, horizon) ==
    LET dt == QSub(times[2], times[1])
        da == QSub(altitudes[2], altitudes[1])
    IN  IF dt = QZero
        THEN \* slope is +-inf (NaN when da = 0); x / +-inf = 0
             IF da = QZero THEN Err("NonFinite") ELSE Ok(times[2])
        ELSE LET slope == QDiv(da, dt)
             IN  IF slope = QZero
                 THEN Err("NonFinite")
                 ELSE Ok(QSub(times[2],
                              QDiv(QSub(altitudes[2], horizon), slope)))

-----------------------------------------------------------------------------
(* Time grid                                                               *)

\* one day, in ticks: a grid of GridN samples over a day steps by one tick
DayTicks == GridN - 1

\* one sidereal day, in ticks: slightly shorter than the day
SiderealTicks == DayTicks - 1

\* the offset, in days, of sample k (zero-based) of np.linspace(start, end, N)
linspace(start, end, N, k) == QAdd(QInt(start), Q(k * (end - start), N - 1))

\* the grid without its last sample moved onto the end of the window
_generate_24hr_grid_open(t0, start, end, N, for_deriv) ==
    Array([i \in 1..N |->
        LET k == i - 1
            days == IF for_deriv /\ k = 0
                    THEN QSub(QInt(start), Q(1, N - 1))
                    ELSE IF for_deriv /\ k = N - 1
                    THEN QAdd(QInt(end), Q(1, N - 1))
                    ELSE QAdd(QInt(start), Q(k * (end - start), N))
        IN  QAdd(t0, QMul(days, QInt(DayTicks)))])

\* t0 + time_grid * u.day: N instants, start and end in days
_generate_24hr_grid(t0, start, end, N, for_deriv) ==
    Array([i \in 1..N |->
        LET k == i - 1
            days == IF for_deriv /\ k = 0
                    THEN QSub(QInt(start), Q(1, N - 1))
                    ELSE IF for_deriv /\ k = N - 1
                    THEN QAdd(QInt(end), Q(1, N - 1))
                    ELSE linspace(start, end, N, k)
        IN  QAdd(t0, QMul(days, QInt(DayTicks)))])

-----------------------------------------------------------------------------
(* Altitude backends.  A target is [ra, profile]: profile tabulates the    *)
(* altitude of the target's declination at the observer's latitude,        *)
(*   arcsin(sin(lat) sin(dec) + cos(lat) cos(dec) cos(H)),                 *)
(* at the hour angles H = 0, 1, .. of one sidereal day, linear in between. *)

\* the altitude at hour angle ha (a rational number of ticks)
AltOfHA(profile, ha) ==
    LET P == Len(profile)
        f == QFloor(ha)
        a == profile[(f % P) + 1]
        b == profile[((f + 1) % P) + 1]
    IN  QAdd(QInt(a), QMul(QInt(b - a), QSub(ha, QInt(f))))

\* times.sidereal_time('mean', longitude): the local sidereal time in ticks
sidereal_time(times) == times

_altitude_trig(LST, target) ==
    Array([k \in 1..Len(LST) |->
              AltOfHA(target.profile, QSub(LST[k], target.ra))])

\* the refraction of the AltAz frame: none without pressure, else a lift of
\* half a unit at and below the horizon that fades out one unit above it
Refract(pressure, alt) ==
    IF pressure \in {"None", "0 bar"} \/ QLe(QInt(1), alt)
    THEN alt
    ELSE IF QLe(alt, QZero)
    THEN QAdd(alt, Q(1, 2))
    ELSE QDiv(QAdd(alt, QInt(1)), QInt(2))

\* self.altaz(times, target).alt
altaz_alt(obs, times, target) ==
    Array([k \in 1..Len(times) |->
              Refract(obs.pressure,
                      AltOfHA(target.profile,
                              QSub(sidereal_time(times)[k], target.ra)))])

-----------------------------------------------------------------------------
(* The resolver.  A result carries the log of the altitude evaluations     *)
(* made: the backend, the grid, and the coordinate used at each instant.   *)

Eval(backend, times, target, altitudes) ==
    [backend |-> backend, times |-> times,
     coords |-> Array([k \in 1..Len(times) |-> target.ra]),
     altitudes |-> altitudes]

WithLog(r, log) == [status |-> r.status, jd |-> r.jd, log |-> log]

\* statuses that are exceptions of the source
Raised == {"NoCrossingFound", "InvalidArgument"}

_calc_riseset(obs, time, target, prev_next, rise_set, horizon, N) ==
    LET times == IF prev_next = "next"
                 THEN _generate_24hr_grid(time, 0, 1, N, FALSE)
                 ELSE _generate_24hr_grid(time, -1, 0, N, FALSE)
        trig == obs.pressure = "0 bar"
        altitudes == IF trig
                     THEN _altitude_trig(sidereal_time(times), target)
                     ELSE altaz_alt(obs, times, target)
        log == <<Eval(IF trig THEN "trig" ELSE "transform", times, target,
                      altitudes)>>
        limits == _horiz_cross(times, altitudes, rise_set, horizon)
    IN  IF limits.status # "ok"
        THEN WithLog(Err(limits.status), log)
        ELSE WithLog(_two_point_interp(limits.times, limits.alts, horizon),
                     log)

\* each difference paired with the earlier of its two instants
midpoints_left(times) ==
    Array([k \in 1..(Len(times) - 1) |-> times[k]])

\* (times.jd[1:] + times.jd[:-1]) / 2
midpoints(times) ==
    Array([k \in 1..(Len(times) - 1) |->
              QDiv(QAdd(times[k + 1], times[k]), QInt(2))])

\* altitudes.diff()
diff(alt) == Array([k \in 1..(Len(alt) - 1) |-> QSub(alt[k + 1], alt[k])])

\* _calc_transit choosing its backend by the pressure, as _calc_riseset does
_calc_transit_trig(obs, time, target, prev_next, antitransit, N) ==
    LET times == IF prev_next = "next"
                 THEN _generate_24hr_grid(time, 0, 1, N, TRUE)
                 ELSE _generate_24hr_grid(time, -1, 0, N, TRUE)
        rise_set == IF antitransit THEN "rising" ELSE "setting"
        trig == obs.pressure = "0 bar"
        altitudes == IF trig
                     THEN _altitude_trig(sidereal_time(times), target)
                     ELSE altaz_alt(obs, times, target)
        dt == midpoints(times)
        d_altitudes == diff(altitudes)
        horizon == QZero
        log == <<Eval(IF trig THEN "trig" ELSE "transform", times, target,
                      altitudes)>>
        limits == _horiz_cross(dt, d_altitudes, rise_set, horizon)
    IN  IF limits.status # "ok"
        THEN WithLog(Err(limits.status), log)
        ELSE WithLog(_two_point_interp(limits.times, limits.alts, horizon),
                     log)

_calc_transit(obs, time, target, prev_next, antitransit, N) ==
    LET times == IF prev_next = "next"
                 THEN _generate_24hr_grid(time, 0, 1, N, TRUE)
                 ELSE _generate_24hr_grid(time, -1, 0, N, TRUE)
        rise_set == IF antitransit THEN "rising" ELSE "setting"
        altitudes == altaz_alt(obs, times, target)
        dt == midpoints(times)
        d_altitudes == diff(altitudes)
        horizon == QZero
        log == <<Eval("transform", times, target, altitudes)>>
        limits == _horiz_cross(dt, d_altitudes, rise_set, horizon)
    IN  IF limits.status # "ok"
        THEN WithLog(Err(limits.status), log)
        ELSE WithLog(_two_point_interp(limits.times, limits.alts, horizon),
                     log)

\* the comparison made non-strict, so that a tie goes to previous
previous_is_nearer_le(time, prv, nxt) ==
    QLe(QAbs(QSub(time, prv)), QAbs(QSub(time, nxt)))

\* abs(time - previous) < abs(time - next)
previous_is_nearer(time, prv, nxt) ==
    QLt(QAbs(QSub(time, prv)), QAbs(QSub(time, nxt)))

\* the shared body with 'nearest' settling for the one search that succeeds
select_which_lenient(time, which, nxt, prv) ==
    IF which = "next"
    THEN nxt
    ELSE IF which = "previous"
    THEN prv
    ELSE IF which = "nearest"
    THEN LET log == nxt.log \o prv.log
         IN  IF nxt.status \in Raised
             THEN WithLog(prv, log)
             ELSE IF prv.status \in Raised
             THEN WithLog(nxt, log)
             ELSE IF prv.status # "ok" \/ nxt.status # "ok"
             THEN WithLog(Err("NonFinite"), log)
             ELSE IF previous_is_nearer(time, prv.jd, nxt.jd)
             THEN WithLog(prv, log)
             ELSE WithLog(nxt, log)
    ELSE WithLog(Err("InvalidArgument"), <<>>)

\* the body shared by calc_rise, calc_set, calc_transit and calc_antitransit:
\* nxt and prv are the results of the forward and of the backward search
\* (a non-finite instant on either side of the comparison is carried as a
\* non-finite result; the properties below speak of finite instants only)
select_which(time, which, nxt, prv) ==
    IF which = "next" \/ (which = "nearest" /\ nxt.status \in Raised)
    THEN nxt
    ELSE IF which = "previous"
    THEN prv
    ELSE IF which = "nearest"
    THEN LET log == nxt.log \o prv.log
         IN  IF prv.status \in Raised
             THEN WithLog(prv, log)
             ELSE IF prv.status # "ok" \/ nxt.status # "ok"
             THEN WithLog(Err("NonFinite"), log)
             ELSE IF previous_is_nearer(time, prv.jd, nxt.jd)
             THEN WithLog(prv, log)
             ELSE WithLog(nxt, log)
    ELSE WithLog(Err("InvalidArgument"), <<>>)

calc_rise(obs, time, target, which, horizon) ==
    select_which(time, which,
        _calc_riseset(obs, time, target, "next", "rising", horizon, GridN),
        _calc_riseset(obs, time, target, "previous", "rising", horizon, GridN))

calc_set(obs, time, target, which, horizon) ==
    select_which(time, which,
        _calc_riseset(obs, time, target, "next", "setting", horizon, GridN),
        _calc_riseset(obs, time, target, "previous", "setting", horizon, GridN))

calc_transit(obs, time, target, which) ==
    select_which(time, which,
        _calc_transit(obs, time, target, "next", FALSE, GridN),
        _calc_transit(obs, time, target, "previous", FALSE, GridN))

calc_antitransit(obs, time, target, which) ==
    select_which(time, which,
        _calc_transit(obs, time, target, "next", TRUE, GridN),
        _calc_transit(obs, time, target, "previous", TRUE, GridN))

-----------------------------------------------------------------------------
(* The Sun and the twilights                                               *)

\* get_sun(time): the Sun's coordinate at one instant.  Its right ascension
\* advances by the difference of the day and the sidereal day each day; its
\* altitude profile at this observer is the ephemeris.
get_sun(time) ==
    [ra |-> QDiv(QMul(time, QInt(DayTicks - SiderealTicks)), QInt(DayTicks)),
     profile |-> ephemeris]

sunrise(obs, time, which, horizon) ==
    calc_rise(obs, time, get_sun(time), which, horizon)

sunset(obs, time, which, horizon) ==
    calc_set(obs, time, get_sun(time), which, horizon)

noon(obs, time, which) == calc_transit(obs, time, get_sun(time), which)

midnight(obs, time, which) == calc_antitransit(obs, time, get_sun(time), which)

evening_astronomical(obs, time, which) == sunset(obs, time, which, QInt(-18))

\* the nautical twilight asked at the civil horizon
evening_nautical_civil(obs, time, which) == sunset(obs, time, which, QInt(-6))

evening_nautical(obs, time, which) == sunset(obs, time, which, QInt(-12))

evening_civil(obs, time, which) == sunset(obs, time, which, QInt(-6))

morning_astronomical(obs, time, which) == sunrise(obs, time, which, QInt(-18))

morning_nautical(obs, time, which) == sunrise(obs, time, which, QInt(-12))

morning_civil(obs, time, which) == sunrise(obs, time, which, QInt(-6))

-----------------------------------------------------------------------------
(* Direct calls of the two pure helpers on drawn inputs                    *)

Alts == (0 - MaxAlt)..MaxAlt
Horizons == (0 - MaxHorizon)..MaxHorizon

NoObserver == [location |-> "unset", pressure |-> "None",
               temperature |-> "None", relative_humidity |-> "None"]
NoEphemeris == <<>>
NoRet == [status |-> "pending"]
NoPrior == <<>>

\* t is the unit-step grid starting at t0; alt the altitudes sampled on it
HCInputs ==
    [t0 : 0..MaxTime,
     alt : UNION {[1..n -> Alts] : n \in 2..MaxLen},
     rise_set : Directions \cup {"bogus"},
     horizon : Horizons]

HCTimes(a) == Array([k \in 1..Len(a.alt) |-> QInt(a.t0 + k - 1)])

InitHC ==
    /\ observer = NoObserver
    /\ ephemeris = NoEphemeris
    /\ op = "idle"
    /\ args \in HCInputs
    /\ ret = NoRet
    /\ prior = NoPrior

HorizCrossCall ==
    /\ op = "idle"
    /\ op' = "_horiz_cross"
    /\ ret' = _horiz_cross(HCTimes(args), QSeq(args.alt), args.rise_set,
                           QInt(args.horizon))
    /\ UNCHANGED <<observer, ephemeris, args, prior>>

SpecHC == InitHC /\ [][HorizCrossCall]_vars

TPIInputs ==
    [times : (0..MaxTime) \X (0..MaxLen),
     altitudes : Alts \X Alts,
     horizon : Horizons]

InitTPI ==
    /\ observer = NoObserver
    /\ ephemeris = NoEphemeris
    /\ op = "idle"
    /\ args \in TPIInputs
    /\ ret = NoRet
    /\ prior = NoPrior

TwoPointInterpCall ==
    /\ op = "idle"
    /\ op' = "_two_point_interp"
    /\ ret' = _two_point_interp(QSeq(args.times), QSeq(args.altitudes),
                                QInt(args.horizon))
    /\ UNCHANGED <<observer, ephemeris, args, prior>>

SpecTPI == InitTPI /\ [][TwoPointInterpCall]_vars

-----------------------------------------------------------------------------
(* The public rise/set/transit queries on a constructed Observer           *)

Pressures == {"None", "0 bar", "1 bar"}

Observers ==
    [location : {"EarthLocation"}, pressure : Pressures,
     temperature : {"None"}, relative_humidity : {"None"}]

\* the altitudes a tabulated profile takes, and the horizons queried
ProfileAlts == {-2, -1, 0, 1, 2}
QueryHorizons == {-1, 0, 1}

Profiles == [1..SiderealTicks -> ProfileAlts]

Targets == [ra : {QZero}, profile : Profiles]

\* reference instants: on the ticks of the profiles and half way between
RefTimes == {Q(j, 2) : j \in 0..MaxTime}

Init ==
    /\ observer \in Observers
    /\ ephemeris = NoEphemeris
    /\ op = "idle"
    /\ args = <<>>
    /\ ret = NoRet
    /\ prior = NoPrior

RiseSetArgs(time, target, which, horizon) ==
    [time |-> time, target |-> target, which |-> which, horizon |-> horizon]

TransitArgs(time, target, which) ==
    [time |-> time, target |-> target, which |-> which]

CalcRise ==
    /\ op = "idle"
    /\ \E time \in RefTimes, target \in Targets,
          which \in Whiches \cup {"bogus"}, horizon \in QueryHorizons :
        /\ op' = "calc_rise"
        /\ args' = RiseSetArgs(time, target, which, QInt(horizon))
        /\ ret' = calc_rise(observer, time, target, which, QInt(horizon))
        /\ prior' = NoPrior
        /\ UNCHANGED <<observer, ephemeris>>

CalcSet ==
    /\ op = "idle"
    /\ \E time \in RefTimes, target \in Targets,
          which \in Whiches \cup {"bogus"}, horizon \in QueryHorizons :
        /\ op' = "calc_set"
        /\ args' = RiseSetArgs(time, target, which, QInt(horizon))
        /\ ret' = calc_set(observer, time, target, which, QInt(horizon))
        /\ prior' = NoPrior
        /\ UNCHANGED <<observer, ephemeris>>

CalcTransit ==
    /\ op = "idle"
    /\ \E time \in RefTimes, target \in Targets,
          which \in Whiches \cup {"bogus"} :
        /\ op' = "calc_transit"
        /\ args' = TransitArgs(time, target, which)
        /\ ret' = calc_transit(observer, time, target, which)
        /\ prior' = NoPrior
        /\ UNCHANGED <<observer, ephemeris>>

CalcAntitransit ==
    /\ op = "idle"
    /\ \E time \in RefTimes, target \in Targets,
          which \in Whiches \cup {"bogus"} :
        /\ op' = "calc_antitransit"
        /\ args' = TransitArgs(time, target, which)
        /\ ret' = calc_antitransit(observer, time, target, which)
        /\ prior' = NoPrior
        /\ UNCHANGED <<observer, ephemeris>>

\* the internal search called directly, with any direction string
CalcRisesetCall ==
    /\ op = "idle"
    /\ \E time \in RefTimes, target \in Targets,
          prev_next \in {"next", "previous"},
          rise_set \in Directions \cup {"bogus"}, horizon \in QueryHorizons :
        /\ op' = "_calc_riseset"
        /\ args' = [time |-> time, target |-> target,
                    which |-> prev_next, rise_set |-> rise_set,
                    horizon |-> QInt(horizon)]
        /\ ret' = _calc_riseset(observer, time, target, prev_next,
                                rise_set, QInt(horizon), GridN)
        /\ prior' = NoPrior
        /\ UNCHANGED <<observer, ephemeris>>

\* the instant a successful 'next' rise returned is handed back to calc_rise
\* as the reference instant of a 'previous' query, all else the same
CalcRiseBack ==
    /\ op = "calc_rise" /\ args.which = "next" /\ ret.status = "ok"
    /\ prior = NoPrior
    /\ op' = "calc_rise"
    /\ args' = RiseSetArgs(ret.jd, args.target, "previous", args.horizon)
    /\ ret' = calc_rise(observer, ret.jd, args.target, "previous",
                        args.horizon)
    /\ prior' = [time |-> args.time, jd |-> ret.jd]
    /\ UNCHANGED <<observer, ephemeris>>

Next ==
    \/ CalcRise
    \/ CalcSet
    \/ CalcTransit
    \/ CalcAntitransit
    \/ CalcRisesetCall
    \/ CalcRiseBack

Spec == Init /\ [][Next]_vars

-----------------------------------------------------------------------------
(* Direct calls of the grid generator on drawn inputs                      *)

\* the offsets start and end, in days
Spans == (0 - MaxSpan)..MaxSpan

GridInputs ==
    {a \in [t0 : RefTimes, start : Spans, end : Spans, N : 2..GridN,
            for_deriv : BOOLEAN] : a.start < a.end}

InitGrid ==
    /\ observer = NoObserver
    /\ ephemeris = NoEphemeris
    /\ op = "idle"
    /\ args \in GridInputs
    /\ ret = NoRet
    /\ prior = NoPrior

GenerateGridCall ==
    /\ op = "idle"
    /\ op' = "_generate_24hr_grid"
    /\ ret' = [status |-> "ok",
               times |-> _generate_24hr_grid(args.t0, args.start, args.end,
                                             args.N, args.for_deriv)]
    /\ UNCHANGED <<observer, ephemeris, args, prior>>

SpecGrid == InitGrid /\ [][GenerateGridCall]_vars

-----------------------------------------------------------------------------
(* Construction of an Observer, and a query on the constructed one         *)

\* the arguments of Observer(...): a location that is absent, an
\* EarthLocation, or of another type; a latitude and a longitude that are
\* absent or given; a timezone that is a tzinfo, the name of a zone, a name
\* pytz does not know, or of another type
LocationArgs == {"None", "EarthLocation", "other"}
CoordArgs == {"None", "given"}
TimezoneArgs == {"tzinfo", "str", "unknown", "other"}

Constructed(pressure) ==
    [location |-> "EarthLocation", pressure |-> pressure,
     temperature |-> "None", relative_humidity |-> "None"]

Failed(kind) == [status |-> kind, observer |-> NoObserver]

\* Observer.__init__ with the coordinates tested before the location's type
__init__coords_first(location, latitude, longitude, pressure, timezone) ==
    IF ~(latitude # "None" /\ longitude # "None")
       /\ location # "EarthLocation"
    THEN {Failed("InvalidLocation")}
    ELSE IF timezone \in {"tzinfo", "str"}
    THEN {[status |-> "ok", observer |-> Constructed(pressure)]}
    ELSE IF timezone = "unknown"
    THEN {Failed("UnknownTimeZone")}
    ELSE {Failed("InvalidTimezone"), Failed("NameError")}

\* Observer.__init__: the outcomes of a construction.  A timezone of another
\* type raises the TypeError under Python 2, and a NameError (unicode is not
\* defined) under Python 3.
__init__(location, latitude, longitude, pressure, timezone) ==
    IF ~(location = "None" /\ latitude # "None" /\ longitude # "None")
       /\ location # "EarthLocation"
    THEN {Failed("InvalidLocation")}
    ELSE IF timezone \in {"tzinfo", "str"}
    THEN {[status |-> "ok", observer |-> Constructed(pressure)]}
    ELSE IF timezone = "unknown"
    THEN {Failed("UnknownTimeZone")}
    ELSE {Failed("InvalidTimezone"), Failed("NameError")}

InitObs ==
    /\ observer = NoObserver
    /\ ephemeris = NoEphemeris
    /\ op = "idle"
    /\ args = <<>>
    /\ ret = NoRet
    /\ prior = NoPrior

ObserverInit ==
    /\ op = "idle"
    /\ observer = NoObserver
    /\ \E location \in LocationArgs, latitude \in CoordArgs,
          longitude \in CoordArgs, pressure \in Pressures,
          timezone \in TimezoneArgs :
        \E r \in __init__(location, latitude, longitude, pressure, timezone) :
            /\ op' = "__init__"
            /\ args' = [location |-> location, latitude |-> latitude,
                        longitude |-> longitude, pressure |-> pressure,
                        timezone |-> timezone]
            /\ ret' = [status |-> r.status]
            /\ observer' = r.observer
            /\ UNCHANGED <<ephemeris, prior>>

\* a query on the Observer just constructed
ObserverQuery ==
    /\ op = "__init__"
    /\ observer # NoObserver
    /\ \E time \in RefTimes, target \in Targets :
        /\ op' = "calc_rise"
        /\ args' = RiseSetArgs(time, target, "next", QZero)
        /\ ret' = calc_rise(observer, time, target, "next", QZero)
        /\ UNCHANGED <<observer, ephemeris, prior>>

NextObs ==
    \/ ObserverInit
    \/ ObserverQuery

SpecObs == InitObs /\ [][NextObs]_vars

-----------------------------------------------------------------------------
(* The Sun queries on a constructed Observer                               *)

\* the altitudes the Sun's profile takes, and the horizons asked of
\* sunrise and sunset
SunAlts == {3, -9, -15, -21}
SunHorizons == {0, -6}

SunProfiles == [1..SiderealTicks -> SunAlts]

InitSun ==
    /\ observer \in Observers
    /\ ephemeris \in SunProfiles
    /\ op = "idle"
    /\ args = <<>>
    /\ ret = NoRet
    /\ prior = NoPrior

\* horizon=0*u.degree, the default of sunrise and sunset
default_horizon == QZero

\* the horizon a call passes on: one given by the caller, or the default
HorizonArgs(given) ==
    IF given THEN {QInt(h) : h \in SunHorizons} ELSE {default_horizon}

SunArgs(time, which) == [time |-> time, which |-> which]

Sunrise ==
    /\ op = "idle"
    /\ \E time \in RefTimes, which \in Whiches \cup {"bogus"},
          given \in BOOLEAN :
        \E horizon \in HorizonArgs(given) :
            /\ op' = "sunrise"
            /\ args' = [time |-> time, which |-> which, horizon |-> horizon,
                        given |-> given]
            /\ ret' = sunrise(observer, time, which, horizon)
            /\ UNCHANGED <<observer, ephemeris, prior>>

Sunset ==
    /\ op = "idle"
    /\ \E time \in RefTimes, which \in Whiches \cup {"bogus"},
          given \in BOOLEAN :
        \E horizon \in HorizonArgs(given) :
            /\ op' = "sunset"
            /\ args' = [time |-> time, which |-> which, horizon |-> horizon,
                        given |-> given]
            /\ ret' = sunset(observer, time, which, horizon)
            /\ UNCHANGED <<observer, ephemeris, prior>>

Noon ==
    /\ op = "idle"
    /\ \E time \in RefTimes, which \in Whiches \cup {"bogus"} :
        /\ op' = "noon"
        /\ args' = SunArgs(time, which)
        /\ ret' = noon(observer, time, which)
        /\ UNCHANGED <<observer, ephemeris, prior>>

Midnight ==
    /\ op = "idle"
    /\ \E time \in RefTimes, which \in Whiches \cup {"bogus"} :
        /\ op' = "midnight"
        /\ args' = SunArgs(time, which)
        /\ ret' = midnight(observer, time, which)
        /\ UNCHANGED <<observer, ephemeris, prior>>

EveningAstronomical ==
    /\ op = "idle"
    /\ \E time \in RefTimes, which \in Whiches \cup {"bogus"} :
        /\ op' = "evening_astronomical"
        /\ args' = SunArgs(time, which)
        /\ ret' = evening_astronomical(observer, time, which)
        /\ UNCHANGED <<observer, ephemeris, prior>>

EveningNautical ==
    /\ op = "idle"
    /\ \E time \in RefTimes, which \in Whiches \cup {"bogus"} :
        /\ op' = "evening_nautical"
        /\ args' = SunArgs(time, which)
        /\ ret' = evening_nautical(observer, time, which)
        /\ UNCHANGED <<observer, ephemeris, prior>>

EveningCivil ==
    /\ op = "idle"
    /\ \E time \in RefTimes, which \in Whiches \cup {"bogus"} :
        /\ op' = "evening_civil"
        /\ args' = SunArgs(time, which)
        /\ ret' = evening_civil(observer, time, which)
        /\ UNCHANGED <<observer, ephemeris, prior>>

MorningAstronomical ==
    /\ op = "idle"
    /\ \E time \in RefTimes, which \in Whiches \cup {"bogus"} :
        /\ op' = "morning_astronomical"
        /\ args' = SunArgs(time, which)
        /\ ret' = morning_astronomical(observer, time, which)
        /\ UNCHANGED <<observer, ephemeris, prior>>

MorningNautical ==
    /\ op = "idle"
    /\ \E time \in RefTimes, which \in Whiches \cup {"bogus"} :
        /\ op' = "morning_nautical"
        /\ args' = SunArgs(time, which)
        /\ ret' = morning_nautical(observer, time, which)
        /\ UNCHANGED <<observer, ephemeris, prior>>

MorningCivil ==
    /\ op = "idle"
    /\ \E time \in RefTimes, which \in Whiches \cup {"bogus"} :
        /\ op' = "morning_civil"
        /\ args' = SunArgs(time, which)
        /\ ret' = morning_civil(observer, time, which)
        /\ UNCHANGED <<observer, ephemeris, prior>>

NextSun ==
    \/ Sunrise
    \/ Sunset
    \/ Noon
    \/ Midnight
    \/ EveningAstronomical
    \/ EveningNautical
    \/ EveningCivil
    \/ MorningAstronomical
    \/ MorningNautical
    \/ MorningCivil

SpecSun == InitSun /\ [][NextSun]_vars

-----------------------------------------------------------------------------
(* Claims about _horiz_cross                                               *)

\* zero-based i is the lowest index with alt[i] < h < alt[i+1]
LowestRising(alt, h, i) ==
    /\ alt[i + 1] < h /\ h < alt[i + 2]
    /\ \A j \in 0..(i - 1) : ~(alt[j + 1] < h /\ h < alt[j + 2])

\* zero-based i is the lowest index with alt[i] > h > alt[i+1]
LowestSetting(alt, h, i) ==
    /\ alt[i + 1] > h /\ h > alt[i + 2]
    /\ \A j \in 0..(i - 1) : ~(alt[j + 1] > h /\ h > alt[j + 2])

ExpectedBracket(a, i) ==
    [status |-> "ok",
     times |-> <<QInt(a.t0 + i), QInt(a.t0 + i + 1)>>,
     alts |-> <<QInt(a.alt[i + 1]), QInt(a.alt[i + 2])>>]

\* C1: for direction rising, when i is the lowest index with
\* alt[i] < h < alt[i+1], _horiz_cross returns exactly the bracket
\* ((t[i], t[i+1]), (alt[i], alt[i+1])), wherever i lies (first pair, last
\* pair or in between).
C1_RisingBracket ==
    (op = "_horiz_cross" /\ args.rise_set = "rising") =>
        \A i \in 0..(Len(args.alt) - 2) :
            LowestRising(args.alt, args.horizon, i) =>
                ret = ExpectedBracket(args, i)

\* a rising crossing found at the last pair of a sequence of four samples
C1_Witness ==
    /\ op = "_horiz_cross" /\ args.rise_set = "rising"
    /\ Len(args.alt) = 4
    /\ LowestRising(args.alt, args.horizon, 2)
    /\ ret = ExpectedBracket(args, 2)

\* C2: for direction setting, when i is the lowest index with
\* alt[i] > h > alt[i+1], _horiz_cross returns the bracket
\* ((t[i], t[i+1]), (alt[i], alt[i+1])), whose altitudes straddle h.
C2_SettingBracket ==
    (op = "_horiz_cross" /\ args.rise_set = "setting") =>
        \A i \in 0..(Len(args.alt) - 2) :
            LowestSetting(args.alt, args.horizon, i) =>
                /\ ret = ExpectedBracket(args, i)
                /\ QLt(QInt(args.horizon), ret.alts[1])
                /\ QLt(ret.alts[2], QInt(args.horizon))

-----------------------------------------------------------------------------
(* Claims about _two_point_interp                                          *)

\* C9: for samples (t0, a0), (t1, a1) with t0 < t1 and a0 < h < a1 the
\* interpolator returns tc = t1 - (a1 - h) (t1 - t0) / (a1 - a0), which lies
\* strictly between t0 and t1 and at which the line through the two samples
\* equals h exactly.
C9_Interp ==
    LET t0 == args.times[1]
        t1 == args.times[2]
        a0 == args.altitudes[1]
        a1 == args.altitudes[2]
        h == args.horizon
    IN  (op = "_two_point_interp" /\ t0 < t1 /\ a0 < h /\ h < a1) =>
            /\ ret.status = "ok"
            /\ LET n == ret.jd[1]
                   d == ret.jd[2]
               IN  /\ d > 0
                   /\ t0 * d < n /\ n < t1 * d
                   /\ n * (a1 - a0) = d * (t1 * (a1 - a0) - (a1 - h) * (t1 - t0))
                   /\ a0 * d * (t1 - t0) + (a1 - a0) * (n - t0 * d)
                          = h * d * (t1 - t0)

\* an interpolation that lands on a non-integral instant
C9_Witness ==
    /\ op = "_two_point_interp"
    /\ args.times[1] < args.times[2]
    /\ args.altitudes[1] < args.horizon /\ args.horizon < args.altitudes[2]
    /\ ret.status = "ok"
    /\ ret.jd[2] > 1

-----------------------------------------------------------------------------
(* Claims about the rise/set/transit queries                               *)

RiseSetOps == {"calc_rise", "calc_set"}
TransitOps == {"calc_transit", "calc_antitransit"}
QueryOps == RiseSetOps \cup TransitOps

\* C3: a 'next' rise followed by a 'previous' rise from the returned instant
\* r finds the same rise again: the second result is within one grid step
\* (one tick) of r whenever both calls succeed.
C3_RoundTrip ==
    (op = "calc_rise" /\ prior # NoPrior /\ ret.status = "ok") =>
        QLe(QAbs(QSub(ret.jd, prior.jd)), QInt(1))

\* C4: a successful 'next' rise or set lies in [time, time + 1 day], a
\* successful 'previous' one in [time - 1 day, time].
C4_InWindow ==
    (op \in RiseSetOps /\ ret.status = "ok") =>
        /\ args.which = "next" =>
              /\ QLe(args.time, ret.jd)
              /\ QLe(ret.jd, QAdd(args.time, QInt(DayTicks)))
        /\ args.which = "previous" =>
              /\ QLe(QSub(args.time, QInt(DayTicks)), ret.jd)
              /\ QLe(ret.jd, args.time)

\* the query of the state asked again with another value of which
Requery(which) ==
    IF op = "calc_rise"
    THEN calc_rise(observer, args.time, args.target, which, args.horizon)
    ELSE IF op = "calc_set"
    THEN calc_set(observer, args.time, args.target, which, args.horizon)
    ELSE IF op = "calc_transit"
    THEN calc_transit(observer, args.time, args.target, which)
    ELSE calc_antitransit(observer, args.time, args.target, which)

\* |time - a| < |time - b|, for rationals
StrictlyNearer(time, a, b) ==
    LET da == Abs(time[1] * a[2] - a[1] * time[2]) * b[2]
        db == Abs(time[1] * b[2] - b[1] * time[2]) * a[2]
    IN  da < db

\* C5: with which = 'nearest', when the forward and the backward search both
\* succeed, the result is the 'previous' result if it is strictly nearer to
\* time than the 'next' result, and the 'next' result otherwise (so also on
\* an exact tie).
C5_Nearest ==
    (op \in QueryOps /\ args.which = "nearest") =>
        LET nxt == Requery("next")
            prv == Requery("previous")
        IN  (nxt.status = "ok" /\ prv.status = "ok") =>
                /\ ret.status = "ok"
                /\ ret.jd = IF StrictlyNearer(args.time, prv.jd, nxt.jd)
                            THEN prv.jd
                            ELSE nxt.jd

\* an exact tie between two different instants, settled for 'next'
C5_Witness ==
    /\ op \in QueryOps /\ args.which = "nearest"
    /\ Requery("next").status = "ok" /\ Requery("previous").status = "ok"
    /\ Requery("next").jd # Requery("previous").jd
    /\ QAbs(QSub(args.time, Requery("previous").jd))
           = QAbs(QSub(args.time, Requery("next").jd))
    /\ ret.jd = Requery("next").jd

\* the sequence the crossing search of the state scans, and its horizon and
\* direction
Scanned(ev) == IF op \in TransitOps THEN diff(ev.altitudes) ELSE ev.altitudes
ScanHorizon == IF op \in TransitOps THEN QZero ELSE args.horizon
ScanRising == op \in {"calc_rise", "calc_antitransit"}

\* samples k, k+1 of a strictly straddle h in the direction asked for
Straddles(a, h, rising, k) ==
    IF rising
    THEN QLt(a[k], h) /\ QLt(h, a[k + 1])
    ELSE QLt(h, a[k]) /\ QLt(a[k + 1], h)

\* C8: when no adjacent pair of the scanned samples strictly straddles the
\* horizon in the direction asked for, a 'next' or 'previous' query fails
\* with NoCrossingFound, returns no instant, and has scanned one grid only.
C8_NoCrossing ==
    (op \in QueryOps /\ args.which \in {"next", "previous"}) =>
        /\ Len(ret.log) = 1
        /\ LET a == Scanned(ret.log[1])
           IN  (\A k \in 1..(Len(a) - 1) :
                    ~Straddles(a, ScanHorizon, ScanRising, k)) =>
                   (ret.status = "NoCrossingFound" /\ ret.jd = NoTime)

\* a scan that meets the horizon exactly but never strictly straddles it
C8_Witness ==
    /\ op \in QueryOps /\ args.which \in {"next", "previous"}
    /\ ret.status = "NoCrossingFound"
    /\ Len(ret.log) = 1
    /\ \E k \in 1..Len(Scanned(ret.log[1])) :
           Scanned(ret.log[1])[k] = ScanHorizon
    /\ \E k \in 1..Len(Scanned(ret.log[1])) :
           QLt(ScanHorizon, Scanned(ret.log[1])[k])
    /\ \E k \in 1..Len(Scanned(ret.log[1])) :
           QLt(Scanned(ret.log[1])[k], ScanHorizon)

\* C10: an invalid selector fails with InvalidArgument before any
\* computation: neither an invalid which given to a query nor an invalid
\* direction reaching the crossing search has a time grid generated or an
\* altitude evaluated.
C10_NoComputation ==
    /\ (op \in QueryOps /\ args.which \notin Whiches) =>
           (ret.status = "InvalidArgument" /\ ret.log = <<>>)
    /\ (op = "_calc_riseset" /\ args.rise_set \notin Directions) =>
           (ret.status = "InvalidArgument" /\ ret.log = <<>>)

\* C10 as amended: an invalid which fails with InvalidArgument before any
\* grid is generated or altitude evaluated; an invalid direction fails with
\* InvalidArgument in the crossing search, after _calc_riseset has generated
\* its one grid and evaluated the altitudes on it, and nothing is
\* interpolated.
C10_Amended ==
    /\ (op \in QueryOps /\ args.which \notin Whiches) =>
           (ret.status = "InvalidArgument" /\ ret.log = <<>>)
    /\ (op = "_calc_riseset" /\ args.rise_set \notin Directions) =>
           /\ ret.status = "InvalidArgument"
           /\ ret.jd = NoTime
           /\ Len(ret.log) = 1
           /\ Len(ret.log[1].times) = GridN
           /\ Len(ret.log[1].altitudes) = GridN

\* an invalid direction rejected after the altitudes were evaluated
C10_Witness ==
    /\ op = "_calc_riseset" /\ args.rise_set \notin Directions
    /\ ret.status = "InvalidArgument"
    /\ Len(ret.log) = 1
    /\ \E k \in 1..GridN : ret.log[1].altitudes[k] # QZero

-----------------------------------------------------------------------------
(* Claims about the Sun and the twilights                                  *)

SunRiseSetOps ==
    {"sunrise", "sunset", "evening_astronomical", "evening_nautical",
     "evening_civil", "morning_astronomical", "morning_nautical",
     "morning_civil"}

\* C6: in sunrise, sunset and the six twilights the Sun's coordinate used at
\* each grid instant is the ephemeris evaluated at that instant.
C6_PerInstantSun ==
    op \in SunRiseSetOps =>
        \A e \in 1..Len(ret.log) :
            \A k \in 1..Len(ret.log[e].times) :
                ret.log[e].coords[k] = get_sun(ret.log[e].times[k]).ra

\* the profile p, read cyclically, falls through h between exactly one pair
\* of neighbouring samples
FallsOnceThrough(p, h) ==
    Cardinality({k \in 1..Len(p) :
                    p[k] > h /\ p[(k % Len(p)) + 1] < h}) = 1

\* the profile p, read cyclically, has one descending run
OneDescent(p) ==
    Cardinality({k \in 1..Len(p) :
                    p[k] >= p[(k % Len(p)) + 1]
                    /\ p[(k % Len(p)) + 1] < p[((k + 1) % Len(p)) + 1]}) = 1

\* C7: for one observer, reference instant and which, whenever the three
\* calls succeed, evening_civil <= evening_nautical <= evening_astronomical,
\* for every Sun altitude curve that descends monotonically through -6, -12
\* and -18 degrees once per day.
C7_TwilightOrder ==
    (/\ op = "evening_civil"
     /\ OneDescent(ephemeris)
     /\ FallsOnceThrough(ephemeris, -6)
     /\ FallsOnceThrough(ephemeris, -12)
     /\ FallsOnceThrough(ephemeris, -18)) =>
        LET civ == ret
            nau == evening_nautical(observer, args.time, args.which)
            ast == evening_astronomical(observer, args.time, args.which)
        IN  (civ.status = "ok" /\ nau.status = "ok" /\ ast.status = "ok") =>
                QLe(civ.jd, nau.jd) /\ QLe(nau.jd, ast.jd)

-----------------------------------------------------------------------------
(* Claims about the altitude backend                                       *)

\* C11: a rise/set query uses the trigonometric backend exactly when the
\* Observer's pressure is zero and the transform backend otherwise, where an
\* Observer constructed without a pressure argument counts as having
\* pressure zero.
C11_Backend ==
    (op \in RiseSetOps \cup {"_calc_riseset"}) =>
        \A e \in 1..Len(ret.log) :
            (ret.log[e].backend = "trig")
                <=> (observer.pressure \in {"0 bar", "None"})

-----------------------------------------------------------------------------
(* Claims about the twilight functions                                     *)

\* the Sun's set and rise at horizon h degrees, for the time and which of
\* the call of the state
SunSetAt(h) ==
    calc_set(observer, args.time, get_sun(args.time), args.which, QInt(h))

SunRiseAt(h) ==
    calc_rise(observer, args.time, get_sun(args.time), args.which, QInt(h))

-----------------------------------------------------------------------------
(* Claims about the construction of an Observer                            *)

\* the location is resolvable: an EarthLocation, or absent with a latitude
\* and a longitude both given
Resolvable(a) ==
    \/ a.location = "EarthLocation"
    \/ a.location = "None" /\ a.latitude = "given" /\ a.longitude = "given"

-----------------------------------------------------------------------------
(* Claims about the grid generator                                         *)

\* the instant t0 + d days
DaysAfter(t0, d) == QAdd(t0, QInt(d * DayTicks))

\* C14: for start < end and N >= 2 the grid has exactly N instants, strictly
\* increasing, in either mode; in non-derivative mode the first is t0 + start
\* and the last is t0 + end.
C14_Grid ==
    op = "_generate_24hr_grid" =>
        /\ Len(ret.times) = args.N
        /\ \A k \in 1..(Len(ret.times) - 1) :
               QLt(ret.times[k], ret.times[k + 1])
        /\ ~args.for_deriv =>
               /\ ret.times[1] = DaysAfter(args.t0, args.start)
               /\ ret.times[args.N] = DaysAfter(args.t0, args.end)

\* a plain grid of more than two instants over more than one day
C14_Witness ==
    /\ op = "_generate_24hr_grid"
    /\ args.N > 2
    /\ ~args.for_deriv
    /\ args.end - args.start > 1
    /\ ret.times[args.N] = DaysAfter(args.t0, args.end)

-----------------------------------------------------------------------------
(* Claims about the transit search                                         *)

\* the Observer of the state with another pressure
WithPressure(p) == [observer EXCEPT !.pressure = p]

\* the transit query of the state asked of another Observer
TransitOf(obs) ==
    IF op = "calc_transit"
    THEN calc_transit(obs, args.time, args.target, args.which)
    ELSE calc_antitransit(obs, args.time, args.target, args.which)

\* C15: the transit and antitransit search ignores refraction: its
\* altitudes, and so its result, are the same for Observers that differ in
\* their atmosphere only.
C15_NoRefraction ==
    op \in TransitOps =>
        \A p \in Pressures : TransitOf(WithPressure(p)) = ret

\* C15 as amended: the transit and antitransit search always evaluates its
\* altitudes with the transform backend, Observer.altaz with the Observer's
\* own atmosphere, never with the trigonometric one, whatever the pressure.
C15_Amended ==
    op \in TransitOps =>
        \A e \in 1..Len(ret.log) :
            /\ ret.log[e].backend = "transform"
            /\ ret.log[e].altitudes
                   = altaz_alt(observer, ret.log[e].times, args.target)

\* a transit found under pressure on altitudes that differ from those of
\* the same search without atmosphere
C15_Witness ==
    /\ op \in TransitOps
    /\ observer.pressure = "1 bar"
    /\ ret.status = "ok"
    /\ Len(ret.log) = 1
    /\ ret.log[1].altitudes
           # altaz_alt(WithPressure("0 bar"), ret.log[1].times, args.target)
    /\ TransitOf(WithPressure("0 bar")).status = "ok"
    /\ TransitOf(WithPressure("0 bar")).jd # ret.jd

\* the first differences of the altitudes a, and the instants half way
\* between neighbouring instants of t
FirstDifferences(a) ==
    Array([k \in 1..(Len(a) - 1) |->
              Q(a[k + 1][1] * a[k][2] - a[k][1] * a[k + 1][2],
                a[k + 1][2] * a[k][2])])

HalfWay(t) ==
    Array([k \in 1..(Len(t) - 1) |->
              Q(t[k][1] * t[k + 1][2] + t[k + 1][1] * t[k][2],
                2 * t[k][2] * t[k + 1][2])])

\* C16: a 'next' or 'previous' transit search evaluates one derivative-mode
\* grid and scans its N-1 first differences d[k] = alt[k+1] - alt[k], each
\* at the instant half way between t[k] and t[k+1], against horizon 0; the
\* first and last of these instants are time + start and time + end; transit
\* scans for 'setting' and antitransit for 'rising'.
C16_DerivativeScan ==
    (op \in TransitOps /\ args.which \in {"next", "previous"}) =>
        /\ Len(ret.log) = 1
        /\ LET t == ret.log[1].times
               d == FirstDifferences(ret.log[1].altitudes)
               m == HalfWay(t)
               start == IF args.which = "next" THEN 0 ELSE -1
               rise_set == IF op = "calc_transit" THEN "setting" ELSE "rising"
               limits == _horiz_cross(m, d, rise_set, QZero)
           IN  /\ Len(t) = GridN
               /\ Len(d) = GridN - 1
               /\ m[1] = DaysAfter(args.time, start)
               /\ m[GridN - 1] = DaysAfter(args.time, start + 1)
               /\ IF limits.status # "ok"
                  THEN ret.status = limits.status /\ ret.jd = NoTime
                  ELSE LET r == _two_point_interp(limits.times, limits.alts,
                                                  QZero)
                       IN  ret.status = r.status /\ ret.jd = r.jd

\* a transit and not an antitransit: the differences fall through zero but
\* never rise through it
C16_Witness ==
    /\ op = "calc_transit" /\ args.which = "previous"
    /\ ret.status = "ok"
    /\ Len(ret.log) = 1
    /\ LET d == FirstDifferences(ret.log[1].altitudes)
       IN  /\ \E k \in 1..(Len(d) - 1) : d[k][1] > 0 /\ d[k + 1][1] < 0
           /\ \A k \in 1..(Len(d) - 1) : ~(d[k][1] < 0 /\ d[k + 1][1] > 0)

-----------------------------------------------------------------------------
(* Further claims about the crossing search and about 'nearest'            *)

\* C17: every bracket _horiz_cross returns, for either direction, has two
\* different altitudes, so that the interpolator never divides by zero.
C17_NonZeroSlope ==
    (op = "_horiz_cross" /\ ret.status = "ok") => ret.alts[1] # ret.alts[2]

\* a query with which = 'nearest' one of whose windows, forward or
\* backward, has no crossing
NoCrossingIn(which) == Requery(which).status = "NoCrossingFound"

\* C18: with which = 'nearest' a query returns a result whenever at least
\* one of its two windows contains a crossing in the direction asked for.
C18_NearestEitherWindow ==
    (op \in QueryOps /\ args.which = "nearest") =>
        ((~NoCrossingIn("next") \/ ~NoCrossingIn("previous")) =>
            ret.status # "NoCrossingFound")

\* C18 as amended: with which = 'nearest' a query fails with NoCrossingFound,
\* and returns no instant, whenever either of its two windows has no
\* crossing in the direction asked for; it gets as far as comparing two
\* instants only when both windows contain one.
C18_Amended ==
    (op \in QueryOps /\ args.which = "nearest") =>
        /\ (NoCrossingIn("next") \/ NoCrossingIn("previous")) =>
               (ret.status = "NoCrossingFound" /\ ret.jd = NoTime)
        /\ (~NoCrossingIn("next") /\ ~NoCrossingIn("previous")) =>
               ret.status # "NoCrossingFound"

\* the backward window alone holds a crossing, and 'nearest' fails
C18_Witness ==
    /\ op \in QueryOps /\ args.which = "nearest"
    /\ NoCrossingIn("next")
    /\ Requery("previous").status = "ok"
    /\ ret.status = "NoCrossingFound"

\* the samples of alt go from strictly below h at index i to strictly above
\* h at index j, or the inverse for 'setting', through one or more samples
\* in between that all equal h (indices zero-based)
ThroughHorizon(alt, rise_set, h, i, j) ==
    /\ i + 1 < j
    /\ \A k \in (i + 1)..(j - 1) : alt[k + 1] = h
    /\ IF rise_set = "rising"
       THEN alt[i + 1] < h /\ h < alt[j + 1]
       ELSE alt[i + 1] > h /\ h > alt[j + 1]

\* C19: a crossing that passes through samples lying exactly on the horizon
\* is found: _horiz_cross returns a bracket and does not fail with
\* NoCrossingFound.
C19_OnHorizon ==
    (op = "_horiz_cross" /\ args.rise_set \in Directions) =>
        \A i \in 0..(Len(args.alt) - 1), j \in 0..(Len(args.alt) - 1) :
            ThroughHorizon(args.alt, args.rise_set, args.horizon, i, j) =>
                ret.status = "ok"

=============================================================================
